---- MODULE Spec2Model ----
(***************************************************************************)
(* A model of scripts/jules-loop.py: the retry/backoff executor, the quota *)
(* tracker, the session lifecycle (create, poll, merge) and the loop       *)
(* controller run_loop, with the persisted state file and the event log.   *)
(*                                                                         *)
(* Python dicts (the state blob, current_agent) are functions whose DOMAIN *)
(* is the set of keys present.  An f-string with interpolated values is a  *)
(* record: its fixed text plus one field per interpolated value.           *)
(***************************************************************************)
EXTENDS Integers, Sequences, FiniteSets, TLC

VARIABLES
    config,               \* LoopConfig, immutable per run
    today,                \* the current UTC date, as a day number
    state,                \* run_loop's in-memory state dict
    file,                 \* content of STATE_FILE, or NoFile
    writes,               \* contents written to STATE_FILE by the last step, in order
    log,                  \* event kinds run_loop appended to LOG_FILE since the last iteration banner
    net,                  \* the HTTP exchange made by the last step, or NoRequest
    SHUTDOWN_REQUESTED,   \* global flag set by shutdown_handler
    LOOP_PAUSED,          \* global flag set by pause_loop
    pc,                   \* position of the single thread of control
    op,                   \* the operation the running retry_with_backoff call wraps
    quota_used,           \* run_loop local
    consecutive_failures, \* run_loop local
    attempt,              \* retry_with_backoff local
    calls,                \* results of operation() in the current retry_with_backoff call
    sleeps,               \* delays slept in the current retry_with_backoff call
    delay,                \* retry_with_backoff local: the delay about to be slept
    ret,                  \* return value of the last retry_with_backoff call, or NoReturn
    elapsed,              \* seconds since wait_for_pr took start_time
    session,              \* run_loop locals session_name, session_id
    pr                    \* run_loop locals pr_url, pr_number

vars == <<config, today, state, file, writes, log, net, SHUTDOWN_REQUESTED,
          LOOP_PAUSED, pc, op, quota_used, consecutive_failures, attempt,
          calls, sleeps, delay, ret, elapsed, session, pr>>

---------------------------------------------------------------------------
(* Bounds of the model *)

MaxRetryMax == 2        \* RETRY_MAX ranges over 1..MaxRetryMax in the loop
MaxAttempts == 4        \* max_retries ranges over 1..MaxAttempts for the executor alone
MaxBaseDelay == 2       \* base_delay ranges over 1..MaxBaseDelay, and the default, for the executor alone
MaxQuotaLimit == 3      \* QUOTA_DAILY_LIMIT ranges over 1..MaxQuotaLimit, or is unset
TimeoutSecs == 2        \* EXECUTION_TIMEOUT_SECS in the loop
PollIntervalSecs == 1   \* POLL_INTERVAL_SECS in the loop
InitialDelaySecs == 1   \* POLL_INITIAL_DELAY_SECS is 0 or InitialDelaySecs in the loop
MaxDay == 2             \* the UTC date ranges over 1..MaxDay (day 0: before the run)

---------------------------------------------------------------------------
(* Python values *)

PyNone == "None"
NoLimit == -1           \* quota_daily_limit = None
NoFile == [exists |-> FALSE, corrupt |-> FALSE, content |-> [k \in {} |-> TRUE]]
NoRequest == [method |-> "none"]
NoReturn == [returned |-> FALSE]
EmptyDict == [k \in {} |-> TRUE]

Get(d, k, default) == IF k \in DOMAIN d THEN d[k] ELSE default

Put(d, k, v) == [x \in DOMAIN d \cup {k} |-> IF x = k THEN v ELSE d[x]]

\* dict.update
Update(d, u) == [x \in DOMAIN d \cup DOMAIN u |-> IF x \in DOMAIN u THEN u[x] ELSE d[x]]

Last(s) == s[Len(s)]

---------------------------------------------------------------------------
(* Outcome classifier *)

is_transient_error(code) == code \in {0, 429, 500, 502, 503, 504}

is_auth_error(code) == code \in {401, 403}

---------------------------------------------------------------------------
(* Retry/backoff executor: one pass of the body of its while loop, given   *)
(* what operation() returned.                                              *)

BackoffDelayBase2(base_delay, n) == base_delay * (2 ^ (n - 1))

BackoffDelay(base_delay, n) == base_delay * (3 ^ (n - 1))

RetryGivesUpLate(retryable, n, max_retries) == (~retryable) \/ n > max_retries

RetryGivesUp(retryable, n, max_retries) == (~retryable) \/ n >= max_retries

retry_with_backoff(r, att, max_retries, base_delay) ==
    IF r.success
    THEN [returned |-> TRUE, success |-> TRUE, result |-> r.result,
          attempt |-> att, delay |-> 0]
    ELSE IF RetryGivesUp(r.retryable, att + 1, max_retries)
         THEN [returned |-> TRUE, success |-> FALSE, result |-> r.result,
               attempt |-> att + 1, delay |-> 0]
         ELSE [returned |-> FALSE, success |-> FALSE, result |-> r.result,
               attempt |-> att + 1, delay |-> BackoffDelay(base_delay, att + 1)]

RetReturn(step) ==
    IF step.returned
    THEN [returned |-> TRUE, success |-> step.success, result |-> step.result]
    ELSE NoReturn

---------------------------------------------------------------------------
(* State file and event log.  A step works on a record m holding the       *)
(* in-memory state dict, the file, the writes made so far in this step,    *)
(* the log and the LOOP_PAUSED flag; Commit stores the outcome.            *)

Mem == [state |-> state, file |-> file, writes |-> <<>>, log |-> log,
        LOOP_PAUSED |-> LOOP_PAUSED]

Commit(m) ==
    /\ state' = m.state
    /\ file' = m.file
    /\ writes' = m.writes
    /\ log' = m.log
    /\ LOOP_PAUSED' = m.LOOP_PAUSED

log_event(m, event) == [m EXCEPT !.log = Append(@, event)]

\* STATE_FILE absent or not valid JSON gives {}.
load_state(f) == IF f.exists /\ ~f.corrupt THEN f.content ELSE EmptyDict

\* json.dumps to a temporary file, then os.replace: the file goes from the
\* old content to the new one in a single write.  The state holds only
\* str keys, ints, bools, None and strs, which json round-trips unchanged.
save_state(m) ==
    [m EXCEPT !.file = [exists |-> TRUE, corrupt |-> FALSE, content |-> m.state],
              !.writes = Append(@, m.state)]

update_state_value(m, key, value) ==
    save_state([m EXCEPT !.state = Put(@, key, value)])

\* state.get("current_agent") or {}
CurrentAgent(st) == Get(st, "current_agent", EmptyDict)

update_current_agent(m, updates) ==
    save_state([m EXCEPT !.state =
                    Put(@, "current_agent", Update(CurrentAgent(m.state), updates))])

pause_loop(m, reason) ==
    LET m1 == log_event([m EXCEPT !.LOOP_PAUSED = TRUE], "paused")
        m2 == update_state_value(m1, "paused", TRUE)
        m3 == update_state_value(m2, "pause_reason", reason)
    IN  IF CurrentAgent(m3.state) # EmptyDict
        THEN update_current_agent(m3, [status |-> "paused"])
        ELSE m3

---------------------------------------------------------------------------
(* Quota tracker.  A date "%Y-%m-%d" is modelled by its day number: the    *)
(* format is one-to-one on dates, and the code only compares for equality. *)

init_quota(m, cfg, day) ==
    IF cfg.quota_daily_limit = NoLimit
    THEN [m |-> m, quota_used |-> 0]
    ELSE IF "quota_reset_date" \notin DOMAIN m.state \/ m.state.quota_reset_date # day
         THEN [m |-> log_event(
                        save_state([m EXCEPT !.state =
                            Put(Put(@, "quota_used", 0), "quota_reset_date", day)]),
                        "info"),
               quota_used |-> 0]
         ELSE [m |-> log_event(m, "info"),
               quota_used |-> Get(m.state, "quota_used", 0)]

check_quota_off_by_one(used, limit) == limit = NoLimit \/ used <= limit

check_quota(used, limit) == limit = NoLimit \/ used < limit

\* Variant of increment_quota that leaves the new count in memory only.
increment_quota_unsaved(m, used, cfg) ==
    IF cfg.quota_daily_limit = NoLimit
    THEN [m |-> m, quota_used |-> used]
    ELSE [m |-> log_event([m EXCEPT !.state = Put(@, "quota_used", used + 1)], "info"),
          quota_used |-> used + 1]

\* Variant of increment_quota that never charges a creation to the quota.
increment_quota_never(m, used, cfg) == [m |-> m, quota_used |-> used]

increment_quota_always(m, used, cfg) ==
    [m |-> log_event(save_state([m EXCEPT !.state = Put(@, "quota_used", used + 1)]),
                     "info"),
     quota_used |-> used + 1]

increment_quota(m, used, cfg) ==
    IF cfg.quota_daily_limit = NoLimit
    THEN [m |-> m, quota_used |-> used]
    ELSE [m |-> log_event(
                    save_state([m EXCEPT !.state = Put(@, "quota_used", used + 1)]),
                    "info"),
          quota_used |-> used + 1]

---------------------------------------------------------------------------
(* Remote responses.  A response is its status and what the code reads of  *)
(* its body.                                                               *)

Statuses == {0, 200, 201, 204, 400, 401, 403, 404, 405, 409, 422, 429, 500, 502,
             503, 504}

\* In the loop: one status of each class the code tells apart (network
\* failure, success, fatal, and the two conflict statuses).
LoopStatuses == {0, 200, 404, 405, 409}

SessionIds == {"s1", "s2"}

\* POST /v1alpha/sessions: the body is not JSON, holds no name, holds a name
\* and no id, or holds both.
CreateBodies == {"malformed", "no_name", "no_id", "ok"}

\* GET /v1alpha/{session_name}: the body is not JSON, holds no output with a
\* pull request url, or holds one.
PollBodies == {"malformed", "no_pr", "pr"}

\* A url is the sequence of its parts between "/".
PrUrls == {<<"https:", "", "github.com", "owner", "repo", "pull", "7">>}

DryRunPrUrl == <<"https:", "", "github.com", "owner", "repo", "pull", "999">>

NoSession == [name |-> "", id |-> ""]

NoPr == [url |-> <<>>, number |-> ""]

\* pr_url.rstrip("/")
RECURSIVE RStripSlash(_)
RStripSlash(url) ==
    IF Len(url) > 1 /\ Last(url) = ""
    THEN RStripSlash(SubSeq(url, 1, Len(url) - 1))
    ELSE url

\* pr_url.rstrip("/").split("/")[-1]
PrNumber(url) == Last(RStripSlash(url))

---------------------------------------------------------------------------
(* Prompt selector: no weighted list is configured in the loop's runs.     *)

choose_prompt(cfg) == cfg.prompt

---------------------------------------------------------------------------
(* Session lifecycle driver *)

\* The timestamp is only ever stored, never read back: one value stands for all.
NewAgent(id, name, prompt, day) ==
    [id |-> id, name |-> name, prompt |-> prompt, status |-> "running",
     start_time |-> "utc", retry_count |-> 0]

\* create_session: resp is the answer to the POST (unused under dry_run).
create_session(m, cfg, day, resp) ==
    LET prompt == choose_prompt(cfg)
        m1 == log_event(m, "agent_created")
    IN  IF cfg.dry_run
        THEN [m |-> update_current_agent(
                        log_event(m1, "info"),
                        NewAgent("dry-run", "sessions/dry-run", prompt, day)),
              success |-> TRUE, retryable |-> FALSE]
        ELSE IF resp.status # 200
        THEN [m |-> log_event(m1, "error"),
              success |-> FALSE, retryable |-> is_transient_error(resp.status)]
        ELSE IF resp.body \in {"malformed", "no_name"}
        THEN [m |-> log_event(m1, "error"), success |-> FALSE, retryable |-> FALSE]
        ELSE [m |-> update_current_agent(
                        log_event(m1, "agent_created"),
                        NewAgent(IF resp.body = "no_id" THEN PyNone ELSE resp.id,
                                 "sessions/" \o resp.id, prompt, day)),
              success |-> TRUE, retryable |-> FALSE]

\* create_op in run_loop
create_op(m, cfg, day, resp) ==
    LET c == create_session(m, cfg, day, resp)
    IN  [m |-> c.m,
         r |-> [success |-> c.success, retryable |-> c.retryable,
                result |-> IF c.success THEN "created" ELSE "failed"]]

\* Variant of poll_session whose dry-run branch logs a pr_found event.
poll_session_logs_pr_found(m, cfg, resp) ==
    IF cfg.dry_run
    THEN [m |-> log_event(m, "pr_found"), found |-> TRUE, pr_url |-> DryRunPrUrl]
    ELSE IF resp.status # 200 \/ resp.body = "malformed"
    THEN [m |-> log_event(m, "error"), found |-> FALSE, pr_url |-> <<>>]
    ELSE IF resp.body = "pr"
    THEN [m |-> log_event(m, "pr_found"), found |-> TRUE, pr_url |-> resp.url]
    ELSE [m |-> m, found |-> FALSE, pr_url |-> <<>>]

\* poll_session: resp is the answer to the GET (unused under dry_run).
poll_session(m, cfg, resp) ==
    IF cfg.dry_run
    THEN [m |-> log_event(m, "info"), found |-> TRUE, pr_url |-> DryRunPrUrl]
    ELSE IF resp.status # 200 \/ resp.body = "malformed"
    THEN [m |-> log_event(m, "error"), found |-> FALSE, pr_url |-> <<>>]
    ELSE IF resp.body = "pr"
    THEN [m |-> log_event(m, "pr_found"), found |-> TRUE, pr_url |-> resp.url]
    ELSE [m |-> m, found |-> FALSE, pr_url |-> <<>>]

\* Variant of MergeOutcome whose dry-run merge asks for a retry.
MergeOutcomeDryRunRetries(dry_run, status, merged) ==
    IF dry_run THEN "retryable"
    ELSE IF status = 200 /\ merged THEN "merged"
    ELSE IF status \in {405, 409} THEN "conflict"
    ELSE IF is_transient_error(status) THEN "retryable"
    ELSE "failed"

MergeOutcomeTrusts200(dry_run, status, merged) ==
    IF dry_run \/ status = 200 THEN "merged"
    ELSE IF status \in {405, 409} THEN "conflict"
    ELSE IF is_transient_error(status) THEN "retryable"
    ELSE "failed"

\* The result label of merge_pr, given the status of the PUT and whether
\* the body is a JSON object with "merged": true.
MergeOutcome(dry_run, status, merged) ==
    IF dry_run THEN "merged"
    ELSE IF status = 200 /\ merged THEN "merged"
    ELSE IF status \in {405, 409} THEN "conflict"
    ELSE IF is_transient_error(status) THEN "retryable"
    ELSE "failed"

\* merge_pr: resp is the answer to the PUT (unused under dry_run).
merge_pr(m, cfg, resp) ==
    LET label == MergeOutcome(cfg.dry_run, resp.status, resp.merged)
    IN  [m |-> IF cfg.dry_run THEN log_event(m, "info")
               ELSE log_event(log_event(m, "info"),
                              IF label = "merged" THEN "pr_merged" ELSE "error"),
         r |-> [success |-> label = "merged", retryable |-> label = "retryable",
                result |-> label]]

---------------------------------------------------------------------------
(* Loop controller: run_loop, cut at its blocking points (a remote call or *)
(* a sleep).  Each action runs the code from one blocking point to the     *)
(* next.                                                                   *)

max_consecutive_failures == 5

DefaultRetryBaseSecs == 5     \* RETRY_BASE_SECS when the environment sets none

\* The two log lines after the while loop.
AfterLoop(m) == log_event(m, "info")

\* The start of a retry_with_backoff call.
EnterRetry(operation) ==
    /\ op' = operation
    /\ attempt' = 0
    /\ calls' = <<>>
    /\ sleeps' = <<>>
    /\ delay' = 0
    /\ ret' = NoReturn

\* What run_loop does once a step has been decided: n holds the new values.
Goto(n) ==
    /\ Commit(n.m)
    /\ pc' = n.pc
    /\ consecutive_failures' = n.consecutive_failures

\* Variant of CreateFailed whose pause threshold is one failure late.
CreateFailedPausesLate(m, failures) ==
    LET m1 == update_current_agent(m, [status |-> "failed"])
    IN  IF failures + 1 > max_consecutive_failures
        THEN [m |-> AfterLoop(pause_loop(m1,
                        [text |-> "Too many consecutive session creation failures",
                         count |-> failures + 1])),
              pc |-> "done", consecutive_failures |-> failures + 1]
        ELSE [m |-> log_event(m1, "error"),
              pc |-> "loop", consecutive_failures |-> failures + 1]

\* Variant of CreateFailed that charges the failed creation to the quota.
CreateFailedConsumesQuota(m, failures) ==
    LET m1 == update_current_agent(
                  update_state_value(m, "quota_used", Get(m.state, "quota_used", 0) + 1),
                  [status |-> "failed"])
    IN  IF failures + 1 >= max_consecutive_failures
        THEN [m |-> AfterLoop(pause_loop(m1,
                        [text |-> "Too many consecutive session creation failures",
                         count |-> failures + 1])),
              pc |-> "done", consecutive_failures |-> failures + 1]
        ELSE [m |-> log_event(m1, "error"),
              pc |-> "loop", consecutive_failures |-> failures + 1]

\* Lines 689-696: retry_with_backoff gave up on create_op.
CreateFailed(m, failures) ==
    LET m1 == update_current_agent(m, [status |-> "failed"])
    IN  IF failures + 1 >= max_consecutive_failures
        THEN [m |-> AfterLoop(pause_loop(m1,
                        [text |-> "Too many consecutive session creation failures",
                         count |-> failures + 1])),
              pc |-> "done", consecutive_failures |-> failures + 1]
        ELSE [m |-> log_event(m1, "error"),
              pc |-> "loop", consecutive_failures |-> failures + 1]

\* Variant of WaitFailed that does not count the failed wait.
WaitFailedUncounted(m, failures) ==
    [m |-> log_event(m, "timeout"), pc |-> "loop", consecutive_failures |-> failures]

\* Lines 709-715: wait_for_pr returned without a change request.
WaitFailed(m, failures) ==
    IF failures + 1 >= max_consecutive_failures
    THEN [m |-> AfterLoop(pause_loop(m,
                    [text |-> "Too many consecutive failures",
                     count |-> failures + 1])),
          pc |-> "done", consecutive_failures |-> failures + 1]
    ELSE [m |-> log_event(m, "timeout"),
          pc |-> "loop", consecutive_failures |-> failures + 1]

\* Variant of MergeFailed that treats a conflict as a generic merge failure.
MergeFailedCountsConflict(m, failures, merge_result, p) ==
    IF failures + 1 >= max_consecutive_failures
    THEN [m |-> AfterLoop(pause_loop(m,
                    [text |-> "Too many consecutive merge failures",
                     count |-> failures + 1])),
          pc |-> "done", consecutive_failures |-> failures + 1]
    ELSE [m |-> log_event(m, "error"),
          pc |-> "loop", consecutive_failures |-> failures + 1]

\* Lines 724-733: retry_with_backoff gave up on merge_op.
MergeFailed(m, failures, merge_result, p) ==
    IF merge_result = "conflict"
    THEN [m |-> AfterLoop(pause_loop(m,
                    [text |-> "Merge conflict on PR",
                     pr_number |-> p.number, pr_url |-> p.url])),
          pc |-> "done", consecutive_failures |-> failures + 1]
    ELSE IF failures + 1 >= max_consecutive_failures
    THEN [m |-> AfterLoop(pause_loop(m,
                    [text |-> "Too many consecutive merge failures",
                     count |-> failures + 1])),
          pc |-> "done", consecutive_failures |-> failures + 1]
    ELSE [m |-> log_event(m, "error"),
          pc |-> "loop", consecutive_failures |-> failures + 1]

\* Lines 735-737: the merge succeeded.
Merged(m) ==
    [m |-> log_event(update_current_agent(m, [status |-> "merged"]), "info"),
     pc |-> "iter_sleep", consecutive_failures |-> 0]

---------------------------------------------------------------------------
(* Initial states: a configuration and the state file an earlier run left. *)

Configs ==
    [dry_run : BOOLEAN,
     quota_daily_limit : {NoLimit} \cup (1..MaxQuotaLimit),
     retry_max : 1..MaxRetryMax,
     retry_base_secs : {DefaultRetryBaseSecs},
     execution_timeout_secs : {TimeoutSecs},
     poll_interval_secs : {PollIntervalSecs},
     poll_initial_delay_secs : {0, InitialDelaySecs},
     prompt : {"Do something interesting in this codebase"}]

OldAgent(status) ==
    [id |-> "s1", name |-> "sessions/s1",
     prompt |-> "Do something interesting in this codebase",
     status |-> status, start_time |-> "utc", retry_count |-> 0]

\* No file (first run), a file that is not JSON, and files left by earlier
\* runs: yesterday's (day 0) or today's (day 1) quota, or a paused loop.
InitFiles ==
    {NoFile, [exists |-> TRUE, corrupt |-> TRUE, content |-> EmptyDict]}
    \cup {[exists |-> TRUE, corrupt |-> FALSE, content |-> c] : c \in
            {[quota_used |-> 1, quota_reset_date |-> d,
              current_agent |-> OldAgent("merged")] : d \in 0..1}
            \cup {[quota_used |-> 2, quota_reset_date |-> 1, paused |-> TRUE,
                   pause_reason |-> [text |-> "Daily quota limit reached"],
                   current_agent |-> OldAgent("paused")]}}

Init ==
    /\ config \in Configs
    /\ file \in InitFiles
    /\ today = 1
    /\ state = EmptyDict
    /\ writes = <<>>
    /\ log = <<>>
    /\ net = NoRequest
    /\ SHUTDOWN_REQUESTED = FALSE
    /\ LOOP_PAUSED = FALSE
    /\ pc = "start"
    /\ op = "none"
    /\ quota_used = 0
    /\ consecutive_failures = 0
    /\ attempt = 0
    /\ calls = <<>>
    /\ sleeps = <<>>
    /\ delay = 0
    /\ ret = NoReturn
    /\ elapsed = 0
    /\ session = NoSession
    /\ pr = NoPr

retry_locals == <<op, attempt, calls, sleeps, delay, ret>>

---------------------------------------------------------------------------
(* Actions *)

\* run_loop, lines 649-668: load the state, initialise the quota, validate
\* the prompt configuration, discover the source.
Startup ==
    /\ pc = "start"
    /\ \E found \in BOOLEAN :
        LET st == load_state(file)
            m0 == [Mem EXCEPT !.state = st]
            m1 == IF st = EmptyDict THEN save_state(m0) ELSE m0
            iq == init_quota(m1, config, today)
            m2 == log_event(log_event(iq.m, "info"), "info")
        IN  /\ quota_used' = iq.quota_used
            /\ net' = [method |-> "GET", endpoint |-> "sources",
                       status |-> IF found THEN 200 ELSE 404]
            /\ IF found
               THEN /\ Commit(log_event(log_event(m2, "info"), "info"))
                    /\ pc' = "loop"
               ELSE /\ Commit(log_event(log_event(m2, "error"), "error"))
                    /\ pc' = "exit"
    /\ UNCHANGED <<config, today, SHUTDOWN_REQUESTED, consecutive_failures,
                   retry_locals, elapsed, session, pr>>

\* run_loop, lines 670-682: the head of the while loop, up to the first
\* create_op of the iteration.
LoopTop ==
    /\ pc = "loop"
    /\ net' = NoRequest
    /\ IF SHUTDOWN_REQUESTED \/ LOOP_PAUSED
       THEN /\ Commit(IF LOOP_PAUSED
                      THEN AfterLoop(log_event(Mem, "info"))
                      ELSE AfterLoop(Mem))
            /\ pc' = "done"
            /\ UNCHANGED <<retry_locals, session, pr, elapsed>>
       ELSE IF ~check_quota(quota_used, config.quota_daily_limit)
       THEN /\ Commit(AfterLoop(pause_loop(log_event(Mem, "quota_exhausted"),
                                           [text |-> "Daily quota limit reached"])))
            /\ pc' = "done"
            /\ UNCHANGED <<retry_locals, session, pr, elapsed>>
       ELSE /\ Commit([Mem EXCEPT !.log = <<"info">>])
            /\ pc' = "create"
            /\ EnterRetry("create")
            /\ session' = NoSession
            /\ pr' = NoPr
            /\ elapsed' = 0
    /\ UNCHANGED <<config, today, SHUTDOWN_REQUESTED, quota_used, consecutive_failures>>

\* Lines 698-706 and 540-550: quota, identifiers, and the start of wait_for_pr.
Created(m, used) ==
    LET iq == increment_quota(m, used, config)
        agent == CurrentAgent(iq.m.state)
        name == Get(agent, "name", "")
        id == IF Get(agent, "id", PyNone) = PyNone THEN "" ELSE agent.id
    IN  IF name = "" \/ id = ""
        THEN [m |-> AfterLoop(pause_loop(log_event(iq.m, "error"),
                                         [text |-> "Missing session identifiers"])),
              pc |-> "done", quota_used |-> iq.quota_used,
              session |-> [name |-> name, id |-> id]]
        ELSE IF config.poll_initial_delay_secs > 0
        THEN [m |-> log_event(iq.m, "info"),
              pc |-> "poll_delay", quota_used |-> iq.quota_used,
              session |-> [name |-> name, id |-> id]]
        ELSE [m |-> log_event(iq.m, "session_polled"),
              pc |-> "poll", quota_used |-> iq.quota_used,
              session |-> [name |-> name, id |-> id]]

\* The answers to POST /v1alpha/sessions.  The code reads the body only of a
\* 200 and the id only of a body with a name, so the parts it does not read
\* are fixed; the remote API gives every session an id of its own.
CreateResponses ==
    IF config.dry_run
    THEN {[status |-> 200, body |-> "ok", id |-> "dry-run"]}
    ELSE {r \in [status : LoopStatuses, body : CreateBodies, id : SessionIds] :
            /\ r.status # 200 => (r.body = "malformed" /\ r.id = "s1")
            /\ r.body \in {"malformed", "no_name"} => r.id = "s1"
            /\ r.status = 200 /\ r.body \in {"ok", "no_id"}
                  => r.id # Get(CurrentAgent(state), "id", PyNone)}

\* One pass of retry_with_backoff around create_op, and what run_loop does
\* when it returns.
CreateAttempt ==
    /\ pc = "create"
    /\ \E resp \in CreateResponses :
        LET c == create_op(Mem, config, today, resp)
            step == retry_with_backoff(c.r, attempt, config.retry_max,
                                       config.retry_base_secs)
        IN  /\ net' = IF config.dry_run THEN NoRequest
                      ELSE [method |-> "POST", endpoint |-> "sessions",
                            status |-> resp.status]
            /\ calls' = Append(calls, c.r)
            /\ attempt' = step.attempt
            /\ delay' = step.delay
            /\ ret' = RetReturn(step)
            /\ IF ~step.returned
               THEN /\ Commit(log_event(c.m, "error"))
                    /\ pc' = "retry_sleep"
                    /\ UNCHANGED <<consecutive_failures, quota_used, session>>
               ELSE IF ~step.success
               THEN /\ Goto(CreateFailed(c.m, consecutive_failures))
                    /\ UNCHANGED <<quota_used, session>>
               ELSE LET n == Created(c.m, quota_used)
                    IN  /\ Commit(n.m)
                        /\ pc' = n.pc
                        /\ quota_used' = n.quota_used
                        /\ session' = n.session
                        /\ UNCHANGED consecutive_failures
    /\ UNCHANGED <<config, today, SHUTDOWN_REQUESTED, op, sleeps, elapsed, pr>>

\* time.sleep(delay) in retry_with_backoff.
RetrySleep ==
    /\ pc = "retry_sleep"
    /\ sleeps' = Append(sleeps, delay)
    /\ pc' = op
    /\ net' = NoRequest
    /\ writes' = <<>>
    /\ UNCHANGED <<config, today, state, file, log, SHUTDOWN_REQUESTED, LOOP_PAUSED,
                   op, quota_used, consecutive_failures, attempt, calls, delay,
                   ret, elapsed, session, pr>>

\* wait_for_pr, line 548: time.sleep(poll_initial_delay_secs), then line 550.
PollDelay ==
    /\ pc = "poll_delay"
    /\ elapsed' = elapsed + config.poll_initial_delay_secs
    /\ Commit(log_event(Mem, "session_polled"))
    /\ pc' = "poll"
    /\ net' = NoRequest
    /\ UNCHANGED <<config, today, SHUTDOWN_REQUESTED, retry_locals, quota_used,
                   consecutive_failures, session, pr>>

\* The answers to GET /v1alpha/{session_name}; the body is read only of a 200
\* and the url only of a body that holds one.
PollResponses ==
    IF config.dry_run
    THEN {[status |-> 200, body |-> "pr", url |-> DryRunPrUrl]}
    ELSE {r \in [status : LoopStatuses, body : PollBodies, url : PrUrls \cup {<<>>}] :
            /\ r.status # 200 => r.body = "malformed"
            /\ (r.body = "pr") = (r.url # <<>>)}

\* Variant of TimedOut that gives up only once the timeout is exceeded.
TimedOutLate(seconds, execution_timeout_secs) == seconds > execution_timeout_secs

\* wait_for_pr, line 563: elapsed >= config.execution_timeout_secs
TimedOut(seconds, execution_timeout_secs) == seconds >= execution_timeout_secs

\* One pass of the while loop of wait_for_pr, lines 552-572, and what
\* run_loop does when wait_for_pr returns (lines 709-722).
Poll ==
    /\ pc = "poll"
    /\ IF SHUTDOWN_REQUESTED
       THEN /\ Goto(WaitFailed(Mem, consecutive_failures))
            /\ net' = NoRequest
            /\ UNCHANGED <<retry_locals, pr>>
       ELSE \E resp \in PollResponses :
            LET p == poll_session(Mem, config, resp)
            IN  /\ net' = IF config.dry_run THEN NoRequest
                          ELSE [method |-> "GET", endpoint |-> "session",
                                status |-> resp.status]
                /\ IF p.found /\ p.pr_url # <<>>
                   THEN /\ Commit(update_current_agent(p.m, [status |-> "pr_found"]))
                        /\ pr' = [url |-> p.pr_url, number |-> PrNumber(p.pr_url)]
                        /\ pc' = "merge"
                        /\ EnterRetry("merge")
                        /\ UNCHANGED consecutive_failures
                   ELSE IF TimedOut(elapsed, config.execution_timeout_secs)
                   THEN /\ Goto(WaitFailed(
                                update_current_agent(log_event(p.m, "timeout"),
                                                     [status |-> "timeout"]),
                                consecutive_failures))
                        /\ UNCHANGED <<retry_locals, pr>>
                   ELSE /\ Commit(log_event(p.m, "session_polled"))
                        /\ pc' = "poll_sleep"
                        /\ UNCHANGED <<retry_locals, pr, consecutive_failures>>
    /\ UNCHANGED <<config, today, SHUTDOWN_REQUESTED, quota_used, elapsed, session>>

\* wait_for_pr, line 573: time.sleep(poll_interval_secs).
PollSleep ==
    /\ pc = "poll_sleep"
    /\ elapsed' = elapsed + config.poll_interval_secs
    /\ pc' = "poll"
    /\ net' = NoRequest
    /\ writes' = <<>>
    /\ UNCHANGED <<config, today, state, file, log, SHUTDOWN_REQUESTED, LOOP_PAUSED,
                   retry_locals, quota_used, consecutive_failures, session, pr>>

\* The answers to PUT .../pulls/{number}/merge: the status, and whether the
\* body is a JSON object with "merged": true.
MergeResponses ==
    IF config.dry_run
    THEN {[status |-> 200, merged |-> TRUE]}
    ELSE [status : LoopStatuses, merged : BOOLEAN]

\* One pass of retry_with_backoff around merge_op, and what run_loop does
\* when it returns.
MergeAttempt ==
    /\ pc = "merge"
    /\ \E resp \in MergeResponses :
        LET c == merge_pr(Mem, config, resp)
            step == retry_with_backoff(c.r, attempt, config.retry_max,
                                       config.retry_base_secs)
        IN  /\ net' = IF config.dry_run THEN NoRequest
                      ELSE [method |-> "PUT", endpoint |-> "merge",
                            status |-> resp.status, merged |-> resp.merged]
            /\ calls' = Append(calls, c.r)
            /\ attempt' = step.attempt
            /\ delay' = step.delay
            /\ ret' = RetReturn(step)
            /\ IF ~step.returned
               THEN /\ Commit(log_event(c.m, "error"))
                    /\ pc' = "retry_sleep"
                    /\ UNCHANGED consecutive_failures
               ELSE IF ~step.success
               THEN Goto(MergeFailed(c.m, consecutive_failures, step.result, pr))
               ELSE Goto(Merged(c.m))
    /\ UNCHANGED <<config, today, SHUTDOWN_REQUESTED, op, sleeps, quota_used,
                   elapsed, session, pr>>

\* run_loop, line 738: time.sleep(2).
IterSleep ==
    /\ pc = "iter_sleep"
    /\ pc' = "loop"
    /\ net' = NoRequest
    /\ writes' = <<>>
    /\ UNCHANGED <<config, today, state, file, log, SHUTDOWN_REQUESTED, LOOP_PAUSED,
                   retry_locals, quota_used, consecutive_failures, elapsed,
                   session, pr>>

\* shutdown_handler, on SIGINT or SIGTERM: flush_state changes no content.
\* The handler's own "shutdown" line is not part of log, which holds what
\* the loop's thread of control appends.
Shutdown ==
    /\ pc \notin {"done", "exit"}
    /\ ~SHUTDOWN_REQUESTED
    /\ SHUTDOWN_REQUESTED' = TRUE
    /\ UNCHANGED <<config, today, state, file, writes, log, net, LOOP_PAUSED, pc,
                   retry_locals, quota_used, consecutive_failures, elapsed,
                   session, pr>>

\* The UTC date changes while the process sleeps.
DayRollover ==
    /\ pc \in {"retry_sleep", "poll_delay", "poll_sleep", "iter_sleep"}
    /\ today < MaxDay
    /\ today' = today + 1
    /\ UNCHANGED <<config, state, file, writes, log, net, SHUTDOWN_REQUESTED,
                   LOOP_PAUSED, pc, retry_locals, quota_used, consecutive_failures,
                   elapsed, session, pr>>

Next ==
    \/ Startup
    \/ LoopTop
    \/ CreateAttempt
    \/ RetrySleep
    \/ PollDelay
    \/ Poll
    \/ PollSleep
    \/ MergeAttempt
    \/ IterSleep
    \/ Shutdown

\* Runs of the loop within one UTC day.
Spec == Init /\ [][Next]_vars

NextMidnight ==
    \/ Next
    \/ DayRollover

\* Runs of the loop during which the UTC date may change.
SpecMidnight == Init /\ [][NextMidnight]_vars

---------------------------------------------------------------------------
(* The retry/backoff executor alone: retry_with_backoff around an          *)
(* arbitrary operation, or around merge_op with every status the Repo API  *)
(* may answer.                                                             *)

Labels == {"a", "b"}

OperationResults == [success : BOOLEAN, retryable : BOOLEAN, result : Labels]

RetryConfigs ==
    [dry_run : {FALSE},
     quota_daily_limit : {NoLimit},
     retry_max : 1..MaxAttempts,
     retry_base_secs : (1..MaxBaseDelay) \cup {DefaultRetryBaseSecs},
     execution_timeout_secs : {TimeoutSecs},
     poll_interval_secs : {PollIntervalSecs},
     poll_initial_delay_secs : {0},
     prompt : {"Do something interesting in this codebase"}]

InitRetry ==
    /\ config \in RetryConfigs
    /\ op \in {"operation", "merge_op"}
    /\ pc = op
    /\ file = NoFile
    /\ today = 1
    /\ state = EmptyDict
    /\ writes = <<>>
    /\ log = <<>>
    /\ net = NoRequest
    /\ SHUTDOWN_REQUESTED = FALSE
    /\ LOOP_PAUSED = FALSE
    /\ quota_used = 0
    /\ consecutive_failures = 0
    /\ attempt = 0
    /\ calls = <<>>
    /\ sleeps = <<>>
    /\ delay = 0
    /\ ret = NoReturn
    /\ elapsed = 0
    /\ session = NoSession
    /\ pr = NoPr

\* One pass of the while loop of retry_with_backoff, the operation having
\* returned r.
RetryPass(r) ==
    LET step == retry_with_backoff(r, attempt, config.retry_max, config.retry_base_secs)
    IN  /\ calls' = Append(calls, r)
        /\ attempt' = step.attempt
        /\ delay' = step.delay
        /\ ret' = RetReturn(step)
        /\ pc' = IF step.returned THEN "returned" ELSE "retry_sleep"

Operation ==
    /\ pc = "operation"
    /\ \E r \in OperationResults : RetryPass(r)
    /\ UNCHANGED <<config, today, state, file, writes, log, net, SHUTDOWN_REQUESTED,
                   LOOP_PAUSED, op, quota_used, consecutive_failures, sleeps,
                   elapsed, session, pr>>

MergeOp ==
    /\ pc = "merge_op"
    /\ \E resp \in [status : Statuses, merged : BOOLEAN] :
        LET c == merge_pr(Mem, config, resp)
        IN  /\ RetryPass(c.r)
            /\ net' = [method |-> "PUT", endpoint |-> "merge",
                       status |-> resp.status, merged |-> resp.merged]
            /\ log' = c.m.log
    /\ UNCHANGED <<config, today, state, file, writes, SHUTDOWN_REQUESTED,
                   LOOP_PAUSED, op, quota_used, consecutive_failures, sleeps,
                   elapsed, session, pr>>

NextRetry ==
    \/ Operation
    \/ MergeOp
    \/ RetrySleep

SpecRetry == InitRetry /\ [][NextRetry]_vars

---------------------------------------------------------------------------
(* Properties of the retry/backoff executor (checked under SpecRetry)      *)

\* C1: retry_with_backoff invokes the operation at most max_retries times;
\* every invocation before the last one failed retryably, so it returns at
\* the first success and at the first non-retryable failure without invoking
\* again; it returns (True, label) exactly when the last invocation
\* succeeded, and (False, last label) exactly when the last invocation failed
\* and was non-retryable or was the max_retries-th; a non-retryable failure
\* on the first attempt gives one invocation and no sleep.
C1_RetryContract ==
    LET n == Len(calls)
    IN  /\ n <= config.retry_max
        /\ \A i \in 1..(n - 1) : ~calls[i].success /\ calls[i].retryable
        /\ ret.returned =>
              /\ n >= 1
              /\ ret.success = calls[n].success
              /\ ret.result = calls[n].result
        /\ (n >= 1 /\ calls[n].success) => ret.returned
        /\ (n >= 1 /\ ~calls[n].success) =>
              (ret.returned <=> (~calls[n].retryable \/ n = config.retry_max))
        /\ (n = 1 /\ ~calls[1].success /\ ~calls[1].retryable) =>
              (ret.returned /\ ~ret.success /\ sleeps = <<>>)
        /\ ret.returned => pc \notin {"operation", "merge_op", "retry_sleep"}

\* The executor gave up after max_retries (at least 3) retryable failures.
C1_Witness ==
    /\ ret.returned
    /\ ~ret.success
    /\ Len(calls) = config.retry_max
    /\ Len(calls) >= 3
    /\ Last(calls).retryable

\* C2: the k-th sleep of a retry_with_backoff call lasts base_delay * 3^(k-1):
\* the first lasts base_delay and each next one three times the one before;
\* a sleep is taken only between a retryable failure and the next
\* invocation, so n failures followed by a success give n sleeps, and no
\* sleep follows the final attempt.
C2_BackoffDelays ==
    /\ Len(sleeps) >= 1 => sleeps[1] = config.retry_base_secs
    /\ \A k \in 1..(Len(sleeps) - 1) : sleeps[k + 1] = 3 * sleeps[k]
    /\ pc \in {"operation", "merge_op"} => Len(sleeps) = Len(calls)
    /\ pc = "retry_sleep" =>
          /\ Len(sleeps) = Len(calls) - 1
          /\ ~Last(calls).success /\ Last(calls).retryable
          /\ delay = IF sleeps = <<>> THEN config.retry_base_secs
                     ELSE 3 * Last(sleeps)
    /\ ret.returned => Len(sleeps) = Len(calls) - 1

\* Two retryable failures, then success, with base_delay = 5: 5 s, then 15 s.
C2_Witness ==
    /\ ret.returned
    /\ ret.success
    /\ config.retry_base_secs = 5
    /\ sleeps = <<5, 15>>

\* C5: merge_pr outside dry-run returns exactly one of four outcomes:
\* success iff the status is 200 and the body says merged = true; 405 and
\* 409 are "conflict", not retryable; 0, 429, 500, 502, 503, 504 are
\* "retryable"; everything else, a 200 without merged = true included, is
\* "failed", not retryable.
C5_MergeClassification ==
    net.method = "PUT" =>
        LET r == Last(calls)
            expected ==
                CASE net.status = 200 /\ net.merged -> "merged"
                  [] net.status \in {405, 409} -> "conflict"
                  [] net.status \in {0, 429, 500, 502, 503, 504} -> "retryable"
                  [] OTHER -> "failed"
        IN  /\ r.result = expected
            /\ r.success = (expected = "merged")
            /\ r.retryable = (expected = "retryable")

\* A 200 whose body does not say merged = true was classified "failed".
C5_Witness ==
    /\ net.method = "PUT"
    /\ net.status = 200
    /\ ~net.merged
    /\ Last(calls) = [success |-> FALSE, retryable |-> FALSE, result |-> "failed"]

---------------------------------------------------------------------------
(* Properties of the loop controller (checked under Spec unless said)      *)

Persisted == file.exists /\ ~file.corrupt /\ file.content = state

Logged(event) == \E i \in 1..Len(log) : log[i] = event

\* The step is the pass of retry_with_backoff in which it returns from the
\* create_op call of an iteration.
CreateReturns == pc = "create" /\ ret'.returned

QuotaFields(d) == [k \in {"quota_used", "quota_reset_date"} \cap DOMAIN d |-> d[k]]

\* C3: a creation failure (retry_with_backoff gave up on create_op) adds one
\* to the consecutive-failure counter, which is below 5 whenever a creation
\* is attempted and which only a merge resets; the failure that brings it to
\* 5, so the fifth of five in a row, leaves paused = true persisted with a
\* pause_reason holding the count 5, and nothing runs after it: no further
\* iteration, no further request.
C3_FiveCreationFailuresPause ==
    /\ [](pc = "create" => consecutive_failures < max_consecutive_failures)
    /\ []((op = "create" /\ ret.returned /\ ~ret.success) =>
            /\ consecutive_failures \in 1..5
            /\ consecutive_failures < 5 => ~LOOP_PAUSED
            /\ consecutive_failures = 5 =>
                  /\ pc = "done"
                  /\ LOOP_PAUSED
                  /\ Persisted
                  /\ state.paused = TRUE
                  /\ state.pause_reason =
                        [text |-> "Too many consecutive session creation failures",
                         count |-> 5]
                  /\ ~ENABLED Next)
    /\ [][/\ (CreateReturns /\ ~ret'.success) =>
                consecutive_failures' = consecutive_failures + 1
          /\ consecutive_failures' < consecutive_failures =>
                (pc = "merge" /\ ret'.returned /\ ret'.success)]_vars

\* Five creation failures in a row in a run that never created a session:
\* current_agent holds a status and nothing else.
C3_Witness ==
    /\ pc = "done"
    /\ "pause_reason" \in DOMAIN state
    /\ state.pause_reason = [text |-> "Too many consecutive session creation failures",
                             count |-> 5]
    /\ DOMAIN state.current_agent = {"status"}

\* C4: a merge request answered 405 or 409 is not retried and pauses the
\* loop at once, whatever the consecutive-failure counter: retry_with_backoff
\* returns (False, "conflict") from that invocation, paused = true is
\* persisted with a reason naming the merge conflict and the change request,
\* and nothing runs after it.
C4_ConflictPausesAtOnce ==
    (net.method = "PUT" /\ net.status \in {405, 409}) =>
        /\ ret = [returned |-> TRUE, success |-> FALSE, result |-> "conflict"]
        /\ pc = "done"
        /\ LOOP_PAUSED
        /\ Persisted
        /\ state.paused = TRUE
        /\ state.pause_reason = [text |-> "Merge conflict on PR",
                                 pr_number |-> pr.number, pr_url |-> pr.url]
        /\ state.current_agent.status = "paused"
        /\ ~ENABLED Next

\* A 409 on the first merge request of a run with no failure so far.
C4_Witness ==
    /\ net.method = "PUT"
    /\ net.status = 409
    /\ Len(calls) = 1
    /\ consecutive_failures = 1
    /\ state.paused = TRUE

\* C6: with a daily limit L, a session-creation request is issued only while
\* quota_used < L: the loop is at a creation attempt only with quota_used < L,
\* every POST was issued with quota_used < L, and a quota check that fails
\* pauses the loop with the persisted reason and stops it.
C6_QuotaGatesCreation ==
    config.quota_daily_limit # NoLimit =>
        /\ (pc = "create" \/ (pc = "retry_sleep" /\ op = "create")) =>
              quota_used < config.quota_daily_limit
        /\ (net.method = "POST" /\ net.endpoint = "sessions") =>
              (IF ret.returned /\ ret.success THEN quota_used - 1 ELSE quota_used)
                  < config.quota_daily_limit
        /\ Logged("quota_exhausted") =>
              /\ quota_used >= config.quota_daily_limit
              /\ pc = "done"
              /\ LOOP_PAUSED
              /\ Persisted
              /\ state.paused = TRUE
              /\ state.pause_reason = [text |-> "Daily quota limit reached"]
              /\ ~ENABLED Next

\* L = 3: the check after the third session of the day fails.
C6_Witness ==
    /\ config.quota_daily_limit = 3
    /\ ~config.dry_run
    /\ quota_used = 3
    /\ pc = "done"
    /\ Logged("quota_exhausted")
    /\ state.pause_reason = [text |-> "Daily quota limit reached"]

\* C7 (checked under SpecMidnight): when an iteration has passed its quota
\* check, quota_reset_date is the current UTC date, so that quota_used
\* counts the sessions of the current day.
C7_QuotaFollowsDate ==
    (config.quota_daily_limit # NoLimit /\ pc = "create" /\ calls = <<>>) =>
        /\ "quota_reset_date" \in DOMAIN state
        /\ state.quota_reset_date = today

\* C8: once the loop runs, quota_used and the persisted quota fields change
\* only in the step in which retry_with_backoff returns success from
\* create_op, and then quota_used grows by exactly one: an iteration whose
\* creation fails, and a failed attempt that is retried, leave them as they
\* were.
C8_QuotaChangesOnlyOnCreation ==
    [][(\/ quota_used' # quota_used
        \/ QuotaFields(state') # QuotaFields(state)
        \/ QuotaFields(file'.content) # QuotaFields(file.content)) =>
            \/ pc = "start"
            \/ /\ CreateReturns
               /\ ret'.success
               /\ quota_used' = quota_used + 1
               /\ QuotaFields(state') = [QuotaFields(state) EXCEPT !.quota_used = quota_used']
               /\ QuotaFields(file'.content) = QuotaFields(state')]_vars

\* A creation that succeeded at its second attempt, the first of the day.
C8_Witness ==
    /\ op = "create"
    /\ Len(calls) = 2
    /\ ret.returned
    /\ ret.success
    /\ config.quota_daily_limit # NoLimit
    /\ quota_used = 1
    /\ file.content.quota_used = 1

\* C9 as stated: every confirmed session creation adds one to quota_used and
\* persists it, also with no daily limit.
C9_Original ==
    [][(CreateReturns /\ ret'.success) =>
            /\ quota_used' = quota_used + 1
            /\ "quota_used" \in DOMAIN file'.content
            /\ file'.content.quota_used = quota_used']_vars

\* C9 amended: with a daily limit, every confirmed session creation, real or
\* dry-run, adds one to quota_used and persists it in the same step; with no
\* daily limit quota_used stays 0 and no quota field is written.
C9_Amended ==
    [][(CreateReturns /\ ret'.success) =>
            IF config.quota_daily_limit # NoLimit
            THEN /\ quota_used' = quota_used + 1
                 /\ "quota_used" \in DOMAIN file'.content
                 /\ file'.content.quota_used = quota_used'
                 /\ state'.quota_used = quota_used'
            ELSE /\ quota_used' = 0
                 /\ quota_used = 0
                 /\ QuotaFields(file'.content) = QuotaFields(file.content)
                 /\ QuotaFields(state') = QuotaFields(state)]_vars

\* One completed dry-run iteration with no daily limit, on a first run:
\* quota_used is 0 and the file holds no quota_used.
C9_Witness ==
    /\ config.dry_run
    /\ config.quota_daily_limit = NoLimit
    /\ pc = "iter_sleep"
    /\ quota_used = 0
    /\ "quota_used" \notin DOMAIN file.content
    /\ file.content.current_agent.status = "merged"

\* C10 as stated: a completed dry-run iteration logged agent_created, then
\* pr_found, then pr_merged, and left current_agent.status = merged.
C10_Original ==
    (config.dry_run /\ pc = "iter_sleep") =>
        /\ \E i, j, k \in 1..Len(log) :
              /\ i < j /\ j < k
              /\ log[i] = "agent_created"
              /\ log[j] = "pr_found"
              /\ log[k] = "pr_merged"
        /\ file.content.current_agent.status = "merged"

\* C10 amended: a dry-run iteration logs no pr_found and no pr_merged event;
\* when it completes (no shutdown request cut it short) it has logged
\* agent_created, then only info and session_polled events, three info among
\* them (creation skipped, change request simulated, merge skipped), and it
\* leaves current_agent.status = merged persisted.
C10_Amended ==
    config.dry_run =>
        /\ ~Logged("pr_found")
        /\ ~Logged("pr_merged")
        /\ pc = "iter_sleep" =>
              /\ \E i \in 1..Len(log) :
                    /\ log[i] = "agent_created"
                    /\ \A j \in (i + 1)..Len(log) : log[j] \in {"info", "session_polled"}
                    /\ Cardinality({j \in (i + 1)..Len(log) : log[j] = "info"}) >= 3
                    /\ \E j \in (i + 1)..Len(log) : log[j] = "session_polled"
              /\ Persisted
              /\ state.current_agent.status = "merged"

\* The log of one completed dry-run iteration with no daily limit and no
\* initial delay.
C10_Witness ==
    /\ config.dry_run
    /\ pc = "iter_sleep"
    /\ log = <<"info", "agent_created", "info", "session_polled", "info", "info", "info">>
    /\ state.current_agent.status = "merged"

---------------------------------------------------------------------------
(* Dry-run, persistence and shutdown                                       *)

\* In a dry run no request for a session or a merge leaves the process, and
\* each call made through retry_with_backoff succeeds at once.
DryRunIsLocal ==
    /\ net.method \notin {"POST", "PUT"}
    /\ ~(net.method = "GET" /\ net.endpoint = "session")
    /\ sleeps = <<>>
    /\ pc # "retry_sleep"
    /\ Len(calls) <= 1
    /\ \A i \in 1..Len(calls) : calls[i].success
    /\ ret.returned => ret.success

PausedWithReason(content, reason) ==
    Get(content, "paused", FALSE) = TRUE =>
        ("pause_reason" \in DOMAIN content /\ content.pause_reason = reason)

\* C12: every content the state file holds after any write has paused = true
\* only together with the pause_reason of that same pause (the reason the
\* state holds once the step that wrote it is over).
C12_PausedAtomicWithReason ==
    /\ \A i \in 1..Len(writes) :
          PausedWithReason(writes[i], Get(state, "pause_reason", [text |-> PyNone]))
    /\ (pc # "start" /\ file.exists /\ ~file.corrupt) =>
          PausedWithReason(file.content, Get(state, "pause_reason", [text |-> PyNone]))

\* C13: once the state is loaded, at every blocking point (a remote call, a
\* sleep, the head of the loop, the exit) the state file holds exactly the
\* in-memory state; every content written is the whole state dict as it
\* was at that write (no key of an earlier content is missing from a later
\* one), and the last one written is the state the step ends with.
C13_StatePersisted ==
    pc # "start" =>
        /\ Persisted
        /\ writes # <<>> => Last(writes) = state
        /\ \A i \in 1..Len(writes) : DOMAIN writes[i] \subseteq DOMAIN state
        /\ \A i \in 2..Len(writes) : DOMAIN writes[i - 1] \subseteq DOMAIN writes[i]

\* A real creation with a daily limit wrote current_agent, then quota_used,
\* and the loop is about to poll.
C13_Witness ==
    /\ ~config.dry_run
    /\ pc = "poll"
    /\ Len(writes) = 2
    /\ "quota_used" \notin DOMAIN writes[1] \/ writes[1].quota_used = quota_used - 1
    /\ writes[2].quota_used = quota_used
    /\ state.current_agent.status = "running"
    /\ net.method = "POST"

\* The step is the return of wait_for_pr at its shutdown test (line 553).
CancelledWait == pc = "poll" /\ SHUTDOWN_REQUESTED

\* C14: when a shutdown request makes wait_for_pr return without a result,
\* the consecutive-failure counter is not incremented, the loop is not
\* paused and neither paused nor pause_reason is written, whatever the
\* counter (4 included).
C14_CancellationIsNoFailure ==
    [][CancelledWait =>
          /\ consecutive_failures' = consecutive_failures
          /\ LOOP_PAUSED' = LOOP_PAUSED
          /\ Get(state', "paused", FALSE) = Get(state, "paused", FALSE)
          /\ Get(file'.content, "paused", FALSE) = Get(file.content, "paused", FALSE)
          /\ Get(state', "pause_reason", [text |-> PyNone])
                = Get(state, "pause_reason", [text |-> PyNone])]_vars

\* The step is a time.sleep of wait_for_pr: the initial delay (line 548) or
\* the delay between two polls (line 573).
PollingSleeps == pc \in {"poll_delay", "poll_sleep"} /\ elapsed' # elapsed

\* C15: once shutdown has been requested, wait_for_pr takes no sleep
\* (neither the initial delay nor a delay between polls) and issues no poll
\* request: it returns with no result.
C15_ShutdownStopsPolling ==
    [][SHUTDOWN_REQUESTED =>
          /\ ~PollingSleeps
          /\ pc = "poll" => (net' = NoRequest /\ pr' = NoPr /\ pc' \in {"loop", "done"})]_vars

\* C16: after a shutdown request the loop stops once the blocking operation
\* in flight returns and issues no further attempt of a retried create or
\* merge: when the back-off sleep of retry_with_backoff returns with the
\* flag set, the executor does not go on to invoke the operation again.
C16_NoRetryAfterShutdown ==
    [][(SHUTDOWN_REQUESTED /\ pc = "retry_sleep") =>
          pc' \notin {"create", "merge"}]_vars

---------------------------------------------------------------------------
(* Prompt validation alone: validate_prompts applied to the value of the   *)
(* PROMPTS variable.  A probability is its JSON type and its value in      *)
(* hundredths; the values are multiples of 0.5, which floats add exactly.  *)

MaxPrompts == 2

PromptTexts == {"", "a"}

Probabilities ==
    {[type |-> "float", value |-> v] : v \in {-50, 0, 50, 100, 150}}
    \cup {[type |-> "int", value |-> 100], [type |-> "str", value |-> 0]}

\* A JSON object with any of the keys "text" and "probability".
PromptDicts ==
    {EmptyDict}
    \cup {[k \in {"text"} |-> t] : t \in PromptTexts}
    \cup {[k \in {"probability"} |-> p] : p \in Probabilities}
    \cup {[text |-> t, probability |-> p] : t \in PromptTexts, p \in Probabilities}

\* An item of the JSON array: an object, or a value of another type.
PromptItems ==
    {[is_dict |-> FALSE, dict |-> EmptyDict]}
    \cup {[is_dict |-> TRUE, dict |-> d] : d \in PromptDicts}

\* PROMPTS unset (None) and PROMPTS = [] are both <<>>: line 319 treats
\* them alike.
PromptLists == UNION {[1..n -> PromptItems] : n \in 0..MaxPrompts}

\* isinstance(value, (int, float)): bool is a subclass of int.
IsNumeric(p) == p.type \in {"int", "float", "bool"}

RECURSIVE ProbSum(_)
ProbSum(prompts) ==
    IF prompts = <<>> THEN 0
    ELSE prompts[1].dict.probability.value + ProbSum(Tail(prompts))

\* validate_prompts, lines 318-341: the verdict and the event logged.
validate_prompts(cfg) ==
    LET ps == cfg.prompts
        HasFields(i) == /\ ps[i].is_dict
                        /\ "text" \in DOMAIN ps[i].dict
                        /\ "probability" \in DOMAIN ps[i].dict
        Bad(i) == ~HasFields(i) \/ ~IsNumeric(ps[i].dict.probability)
    IN  IF ps = <<>> THEN [ok |-> TRUE, event |-> "info", message |-> "single"]
        ELSE IF \E i \in 1..Len(ps) : Bad(i)
        THEN LET first == CHOOSE i \in 1..Len(ps) :
                              Bad(i) /\ \A j \in 1..(i - 1) : ~Bad(j)
             IN  [ok |-> FALSE, event |-> "error",
                  message |-> IF HasFields(first) THEN "numeric" ELSE "fields"]
        ELSE IF ~(99 <= ProbSum(ps) /\ ProbSum(ps) <= 101)
        THEN [ok |-> FALSE, event |-> "error", message |-> "sum"]
        ELSE [ok |-> TRUE, event |-> "info", message |-> "weighted"]

InitPrompts ==
    /\ config \in [prompt : {"Do something interesting in this codebase"},
                   prompts : PromptLists]
    /\ file = NoFile
    /\ today = 1
    /\ state = EmptyDict
    /\ writes = <<>>
    /\ log = <<>>
    /\ net = NoRequest
    /\ SHUTDOWN_REQUESTED = FALSE
    /\ LOOP_PAUSED = FALSE
    /\ pc = "validate"
    /\ op = "validate_prompts"
    /\ quota_used = 0
    /\ consecutive_failures = 0
    /\ attempt = 0
    /\ calls = <<>>
    /\ sleeps = <<>>
    /\ delay = 0
    /\ ret = NoReturn
    /\ elapsed = 0
    /\ session = NoSession
    /\ pr = NoPr

\* run_loop, lines 655-657: validate the prompts; exit when they are invalid.
ValidatePrompts ==
    /\ pc = "validate"
    /\ LET v == validate_prompts(config)
       IN  /\ log' = IF v.ok THEN Append(log, v.event)
                     ELSE Append(Append(log, v.event), "error")
           /\ ret' = [returned |-> TRUE, success |-> v.ok, result |-> v.message]
           /\ pc' = IF v.ok THEN "validated" ELSE "exit"
    /\ UNCHANGED <<config, today, state, file, writes, net, SHUTDOWN_REQUESTED,
                   LOOP_PAUSED, op, quota_used, consecutive_failures, attempt,
                   calls, sleeps, delay, elapsed, session, pr>>

NextPrompts == ValidatePrompts

SpecPrompts == InitPrompts /\ [][NextPrompts]_vars

\* C17 (checked under SpecPrompts): in a weighted prompt list that passed
\* validate_prompts every entry has a non-empty text and a numeric
\* probability in [0, 1], and the probabilities sum to within 0.01 of 1.0;
\* so a list with an entry whose probability is negative or above 1 fails.
C17_ValidatedListsWellFormed ==
    (pc = "validated" /\ config.prompts # <<>>) =>
        /\ \A i \in 1..Len(config.prompts) :
              /\ config.prompts[i].is_dict
              /\ config.prompts[i].dict.text # ""
              /\ config.prompts[i].dict.probability.type \in {"int", "float"}
              /\ config.prompts[i].dict.probability.value \in 0..100
        /\ ProbSum(config.prompts) \in 99..101

\* C18: a process that starts from a state file with paused = true starts no
\* iteration: while the persisted pause stands and this process has not
\* paused itself, it is at the start, at the head of the loop or out of the
\* loop, and has sent no session-creation request.
C18_PersistedPauseHonoured ==
    (pc # "start" /\ Get(state, "paused", FALSE) = TRUE /\ ~LOOP_PAUSED) =>
        /\ pc \in {"loop", "done", "exit"}
        /\ net.method # "POST"
        /\ Get(CurrentAgent(state), "status", PyNone) = "paused"

---------------------------------------------------------------------------
(* Consecutive-failure budget and polling                                  *)

\* The step ends an iteration in failure: retry_with_backoff gave up on
\* create_op (line 689) or on merge_op (line 724), or wait_for_pr returned
\* without a change request (line 709).
CreationFails == pc = "create" /\ ret'.returned /\ ~ret'.success

WaitFails == pc = "poll" /\ pc' \in {"loop", "done"}

MergeFails == pc = "merge" /\ ret'.returned /\ ~ret'.success

MergeSucceeds == pc = "merge" /\ ret'.returned /\ ret'.success

\* C19: the consecutive-failure counter stays within 0..5 and is below 5
\* wherever the loop is still running; it changes only by one more at an
\* iteration failure or back to 0 at a successful merge (so not at a
\* successful creation or a found change request); every creation failure,
\* failed wait and generic merge failure adds one to it, and such a failure
\* pauses the loop exactly when it brings the counter to 5.  A conflict
\* pauses whatever the counter, which is not read again after it.
C19_FailureBudget ==
    /\ [](/\ consecutive_failures \in 0..max_consecutive_failures
          /\ pc \notin {"done"} => consecutive_failures < max_consecutive_failures
          /\ consecutive_failures = max_consecutive_failures => LOOP_PAUSED)
    /\ [][/\ consecutive_failures' # consecutive_failures =>
                \/ /\ CreationFails \/ WaitFails \/ MergeFails
                   /\ consecutive_failures' = consecutive_failures + 1
                \/ MergeSucceeds /\ consecutive_failures' = 0
          /\ (CreationFails \/ WaitFails \/ (MergeFails /\ ret'.result # "conflict")) =>
                /\ consecutive_failures' = consecutive_failures + 1
                /\ LOOP_PAUSED' <=> consecutive_failures' = max_consecutive_failures
                /\ pc' = IF LOOP_PAUSED' THEN "done" ELSE "loop"
          /\ MergeSucceeds => consecutive_failures' = 0
          /\ (MergeFails /\ ret'.result = "conflict") => (LOOP_PAUSED' /\ pc' = "done")]_vars

\* The fifth failure in a row is a generic merge failure: the creation and
\* the found change request of that iteration did not reset the counter.
C19_Witness ==
    /\ pc = "done"
    /\ consecutive_failures = 5
    /\ op = "merge"
    /\ ret = [returned |-> TRUE, success |-> FALSE, result |-> "failed"]
    /\ state.pause_reason = [text |-> "Too many consecutive merge failures", count |-> 5]

\* wait_for_pr alone, entered by run_loop at line 708: the first iteration
\* of a run with no daily limit has just created its session (the state
\* file was empty), after 0..4 iterations whose creation failed.
InitWait ==
    /\ config \in {c \in Configs : c.quota_daily_limit = NoLimit /\ c.retry_max = 1}
    /\ consecutive_failures \in 0..(max_consecutive_failures - 1)
    /\ today = 1
    /\ SHUTDOWN_REQUESTED = FALSE
    /\ LOOP_PAUSED = FALSE
    /\ LET resp == IF config.dry_run
                   THEN [status |-> 200, body |-> "ok", id |-> "dry-run"]
                   ELSE [status |-> 200, body |-> "ok", id |-> "s1"]
           m0 == [state |-> EmptyDict,
                  file |-> [exists |-> TRUE, corrupt |-> FALSE, content |-> EmptyDict],
                  writes |-> <<>>, log |-> <<"info">>, LOOP_PAUSED |-> FALSE]
           c == create_op(m0, config, 1, resp)
           n == Created(c.m, 0)
       IN  /\ state = n.m.state
           /\ file = n.m.file
           /\ writes = n.m.writes
           /\ log = n.m.log
           /\ pc = n.pc
           /\ session = n.session
           /\ quota_used = n.quota_used
           /\ calls = <<c.r>>
           /\ net = IF config.dry_run THEN NoRequest
                    ELSE [method |-> "POST", endpoint |-> "sessions", status |-> 200]
    /\ op = "create"
    /\ attempt = 0
    /\ sleeps = <<>>
    /\ delay = 0
    /\ ret = [returned |-> TRUE, success |-> TRUE, result |-> "created"]
    /\ elapsed = 0
    /\ pr = NoPr

NextWait ==
    \/ PollDelay
    \/ Poll
    \/ PollSleep
    \/ Shutdown

\* Wall-clock time advances (a sleep of wait_for_pr ends) and every poll
\* request returns.
SpecWait ==
    InitWait /\ [][NextWait]_vars
    /\ WF_vars(PollDelay) /\ WF_vars(Poll) /\ WF_vars(PollSleep)

InWait == pc \in {"poll_delay", "poll", "poll_sleep"}

\* The step is the return of wait_for_pr at its timeout test (line 563).
TimesOut == WaitFails /\ ~SHUTDOWN_REQUESTED

\* C20 (checked under SpecWait): wait_for_pr always returns, with the
\* change-request url and status pr_found persisted, or without a result;
\* it gives up on a timeout only when no url has appeared and the elapsed
\* time has reached execution_timeout_secs, and then it writes status
\* timeout and the iteration counts as one failure; the session is not
\* polled again, since only a session just created, in status running, is
\* ever polled.
C20_PollingEnds ==
    /\ InWait ~> ~InWait
    /\ [](pc = "merge" =>
            /\ pr.url # <<>>
            /\ pr.number = PrNumber(pr.url)
            /\ state.current_agent.status = "pr_found"
            /\ Persisted)
    /\ [](InWait =>
            /\ state.current_agent.status = "running"
            /\ Get(state.current_agent, "id", PyNone) = session.id
            /\ pc = "poll_sleep" => elapsed < config.execution_timeout_secs
            /\ pc = "poll" =>
                  \/ elapsed = config.poll_initial_delay_secs
                  \/ elapsed < config.execution_timeout_secs + config.poll_interval_secs)
    /\ [][/\ TimesOut =>
                /\ elapsed >= config.execution_timeout_secs
                /\ pr' = NoPr
                /\ \E i \in 1..Len(writes') :
                      writes'[i].current_agent.status = "timeout"
                /\ state'.current_agent.status \in {"timeout", "paused"}
                /\ consecutive_failures' = consecutive_failures + 1
          /\ (pc = "poll" /\ ~SHUTDOWN_REQUESTED /\ pc' = "poll_sleep") =>
                elapsed < config.execution_timeout_secs]_vars

\* A real session timed out at the third poll, after two inter-poll sleeps.
C20_Witness ==
    /\ ~config.dry_run
    /\ ~SHUTDOWN_REQUESTED
    /\ pc = "loop"
    /\ net.method = "GET"
    /\ net.endpoint = "session"
    /\ elapsed = config.execution_timeout_secs
    /\ state.current_agent.status = "timeout"
    /\ consecutive_failures = 1

---------------------------------------------------------------------------
(* Fatal polls, the status lifecycle, termination                          *)

\* The step is a poll of wait_for_pr whose request got a generic fatal
\* answer: a status that is neither 200 nor transient, or a 200 whose body
\* is not JSON (poll_session logs an error before anything else).
FatalPoll ==
    /\ pc = "poll"
    /\ ~SHUTDOWN_REQUESTED
    /\ net'.method = "GET"
    /\ \/ net'.status # 200 /\ ~is_transient_error(net'.status)
       \/ /\ net'.status = 200
          /\ Len(log') > Len(log)
          /\ log'[Len(log) + 1] = "error"

\* C21: a poll request answered with a generic fatal outcome ends the
\* polling of that session at once: wait_for_pr returns without sleeping
\* for another poll, and the iteration counts one failure.
C21_FatalPollStopsPolling ==
    [][FatalPoll =>
          /\ pc' \in {"loop", "done"}
          /\ consecutive_failures' = consecutive_failures + 1]_vars

\* The persisted status of the current session.
PersistedStatus(f) == Get(CurrentAgent(f.content), "status", PyNone)

\* C22: merged is only ever written over the status pr_found, and an
\* iteration that ends in a generic (non-conflict) merge failure without
\* pausing the loop leaves the persisted status of its session at failed.
C22_StatusLifecycle ==
    [][/\ (PersistedStatus(file') = "merged" /\ PersistedStatus(file) # "merged") =>
             PersistedStatus(file) = "pr_found"
       /\ (MergeFails /\ ret'.result # "conflict" /\ ~LOOP_PAUSED') =>
             PersistedStatus(file') = "failed"]_vars

\* The session a current_agent record names, PyNone when it names none.
AgentId(st) == Get(CurrentAgent(st), "id", PyNone)

\* C24: a current_agent record never holds a status without an id, and a
\* record of a session stored as merged keeps that status for as long as it
\* names that session: no step rewrites the status beside an unchanged id.
C24_StatusDescribesSession ==
    /\ [](CurrentAgent(file.content) # EmptyDict => AgentId(file.content) # PyNone)
    /\ [][(/\ PersistedStatus(file) = "merged"
           /\ AgentId(file.content) # PyNone
           /\ AgentId(file'.content) = AgentId(file.content)) =>
              PersistedStatus(file') = "merged"]_vars

\* A step of a run that no signal interrupts and in which no call is
\* retried (retry_max = 1 leaves RetrySleep without a state to act in).
RunStep ==
    \/ Startup
    \/ LoopTop
    \/ CreateAttempt
    \/ PollDelay
    \/ Poll
    \/ PollSleep
    \/ MergeAttempt
    \/ IterSleep

InitLimited ==
    /\ Init
    /\ config.quota_daily_limit # NoLimit
    /\ config.retry_max = 1

\* Runs with a daily limit in which the process keeps running: every
\* external call returns and every sleep ends.
SpecLimited == InitLimited /\ [][RunStep]_vars /\ WF_vars(RunStep)

\* C23 (checked under SpecLimited): with a daily limit L every run of the
\* loop ends (pause, shutdown, or exit at startup); quota_used grows only by
\* one per created session and only from a value below L, so at most
\* L minus the initial quota_used sessions are created; and a merge is only
\* attempted in an iteration that consumed quota, so the resets of the
\* failure counter are bounded by the quota as well.
C23_QuotaBoundsRun ==
    /\ <>(pc \in {"done", "exit"})
    /\ [](pc \in {"poll_delay", "poll", "poll_sleep", "merge", "iter_sleep"} =>
            (quota_used >= 1 /\ quota_used <= config.quota_daily_limit
             /\ state.quota_used = quota_used))
    /\ [][/\ (pc # "start" /\ quota_used' # quota_used) =>
                /\ quota_used' = quota_used + 1
                /\ quota_used < config.quota_daily_limit
                /\ CreateReturns /\ ret'.success
          /\ consecutive_failures' < consecutive_failures => MergeSucceeds]_vars

\* A run with L = 2 ended by the quota check, with failed iterations on the
\* way: four failures stand on the counter.
C23_Witness ==
    /\ config.quota_daily_limit = 2
    /\ quota_used = 2
    /\ pc = "done"
    /\ LOOP_PAUSED
    /\ consecutive_failures = 4
    /\ state.pause_reason = [text |-> "Daily quota limit reached"]

====
